---------------------------- MODULE Spec2Model ----------------------------
(***************************************************************************)
(* Model of src/js/game.js: the Game object, its key handlers, the model   *)
(* loader callback and the per-frame callback animate() with movePlayer,   *)
(* checkBuildingCollision, playAnimation and forceAnimation.               *)
(*                                                                         *)
(* Lengths are exact multiples of 0.05 in the source (0.1, 0.15, -50, ...),*)
(* so every coordinate is held as an integer number of twentieths:         *)
(* 0.1 is 2, 0.15 is 3, -40 is -800.  Angles are held in quarter turns     *)
(* (Math.PI / 2 is 1).  The JavaScript numbers are IEEE doubles; the model *)
(* is the exact arithmetic the source text denotes.                        *)
(***************************************************************************)
EXTENDS Integers, Sequences, FiniteSets, TLC

VARIABLES
    keys,           \* this.keys: key name -> pressed
    loadState,      \* GLTFLoader.load request: "pending", "loaded", "failed"
    player,         \* this.player: Undefined, or its position and rotation.y
    mixer,          \* this.mixer is set
    animations,     \* names n for which this.animations[n] is set
    currentAction,  \* this.currentAction, by clip name ("undefined" if unset)
    isFlying,       \* this.isFlying
    camera,         \* this.camera: position and lookAt target
    pendingFrames,  \* callbacks handed to requestAnimationFrame, not yet run
    trace,          \* what the last run of animate() did
    probe           \* last direct evaluation of checkBuildingCollision

vars == << keys, loadState, player, mixer, animations, currentAction,
           isFlying, camera, pendingFrames, trace, probe >>

gameVars == << keys, loadState, player, mixer, animations, currentAction,
               isFlying, camera, pendingFrames, trace >>

(***************************************************************************)
(* Bounds of the model.                                                    *)
(***************************************************************************)
\* frames may move the player at most Reach steps away (per axis) from an anchor
Reach == 2
\* frames may lift the player at most to height MaxY (twentieths)
MaxY == 6
\* direct collision probes range this far around the building's rectangle
Margin == 2
\* under fair scheduling: steps from the spawn point a walk may lead (falls
\* are followed beyond it), and the height a jump may lead to
FairReach == 0
FairMaxY == 4

(***************************************************************************)
(* Constants of the program (twentieths of a unit).                        *)
(***************************************************************************)
flyingSpeed == 2
fallSpeed == 3
speed == 2

buildingBounds ==
    [ minX |-> -1000, maxX |-> -800, minZ |-> -1000, maxZ |-> -800,
      doorMinX |-> -920, doorMaxX |-> -880,
      doorFrontZ |-> -800, doorBackZ |-> -820 ]

ArrowKeys == {"ArrowUp", "ArrowDown", "ArrowLeft", "ArrowRight"}
KeyNames == ArrowKeys \cup {" "}
\* keys the keyboard can report: the five named ones and one other
EventKeys == KeyNames \cup {"a"}

\* clips of Soldier.glb, stored by name
GltfClips == {"Idle", "Run", "Walk", "TPose"}

Vec(x, y, z) == [x |-> x, y |-> y, z |-> z]

Undefined == [defined |-> FALSE]

NoTrace ==
    [ steps |-> << >>, calls |-> << >>, ops |-> << >>,
      scheduled |-> 0, isMoving |-> FALSE, jump |-> FALSE,
      rejected |-> FALSE, landed |-> FALSE, ran |-> FALSE,
      arrows |-> FALSE ]  \* arrows: an arrow key was down while animate() ran

Step(self, s) == [self EXCEPT !.trace.steps = Append(@, s)]
Op(self, o, name) == [self EXCEPT !.trace.ops = Append(@, <<o, name>>)]

(***************************************************************************)
(* checkBuildingCollision(newPosition)                                     *)
(***************************************************************************)
\* mutant: the outer test forgets the front face (maxZ)
checkBuildingCollision_NoMaxZ(newPosition) ==
    IF /\ newPosition.x >= buildingBounds.minX
       /\ newPosition.x <= buildingBounds.maxX
       /\ newPosition.z >= buildingBounds.minZ
    THEN IF /\ newPosition.z >= buildingBounds.doorBackZ
            /\ newPosition.z <= buildingBounds.doorFrontZ
            /\ newPosition.x >= buildingBounds.doorMinX
            /\ newPosition.x <= buildingBounds.doorMaxX
         THEN FALSE
         ELSE TRUE
    ELSE FALSE

\* mutant: the doorway's back edge is exclusive
checkBuildingCollision_OpenDoorBack(newPosition) ==
    IF /\ newPosition.x >= buildingBounds.minX
       /\ newPosition.x <= buildingBounds.maxX
       /\ newPosition.z >= buildingBounds.minZ
       /\ newPosition.z <= buildingBounds.maxZ
    THEN IF /\ newPosition.z > buildingBounds.doorBackZ
            /\ newPosition.z <= buildingBounds.doorFrontZ
            /\ newPosition.x >= buildingBounds.doorMinX
            /\ newPosition.x <= buildingBounds.doorMaxX
         THEN FALSE
         ELSE TRUE
    ELSE FALSE

checkBuildingCollision(newPosition) ==
    IF /\ newPosition.x >= buildingBounds.minX
       /\ newPosition.x <= buildingBounds.maxX
       /\ newPosition.z >= buildingBounds.minZ
       /\ newPosition.z <= buildingBounds.maxZ
    THEN IF /\ newPosition.z >= buildingBounds.doorBackZ
            /\ newPosition.z <= buildingBounds.doorFrontZ
            /\ newPosition.x >= buildingBounds.doorMinX
            /\ newPosition.x <= buildingBounds.doorMaxX
         THEN FALSE
         ELSE TRUE
    ELSE FALSE

(***************************************************************************)
(* forceAnimation(name): stop the current action, restart the next one.    *)
(***************************************************************************)
forceAnimation(self, name) ==
    IF name \notin self.animations THEN self
    ELSE LET stopped == IF self.currentAction # "undefined"
                        THEN Op(self, "stop", self.currentAction)
                        ELSE self
             started == Op(Op(stopped, "reset", name), "play", name)
         IN  [started EXCEPT !.currentAction = name]

(***************************************************************************)
(* playAnimation(name): cross-fade to the next action unless it is current. *)
(***************************************************************************)
\* mutant: the test for the current action is missing
playAnimation_NoCurrentTest(self, name) ==
    IF name \notin self.animations THEN self
    ELSE LET faded == IF self.currentAction # "undefined"
                      THEN Op(self, "fadeOut", self.currentAction)
                      ELSE self
             started == Op(Op(Op(faded, "reset", name), "fadeIn", name),
                           "play", name)
         IN  [started EXCEPT !.currentAction = name]

playAnimation(self, name) ==
    IF name \notin self.animations \/ self.currentAction = name THEN self
    ELSE LET faded == IF self.currentAction # "undefined"
                      THEN Op(self, "fadeOut", self.currentAction)
                      ELSE self
             started == Op(Op(Op(faded, "reset", name), "fadeIn", name),
                           "play", name)
         IN  [started EXCEPT !.currentAction = name]

\* a call made by movePlayer, noted in the trace
Call(self, fn, name) ==
    LET noted == [Step(self, fn) EXCEPT !.trace.calls = Append(@, <<fn, name>>)]
    IN  IF fn = "forceAnimation" THEN forceAnimation(noted, name)
        ELSE playAnimation(noted, name)

(***************************************************************************)
(* updateCameraPosition()                                                  *)
(***************************************************************************)
updateCameraPosition(self) ==
    IF ~self.player.defined THEN self
    ELSE LET p == self.player.position
         IN  [self EXCEPT !.camera =
                 [ position |-> Vec(p.x + 0, p.y + 80, p.z + 120),
                   lookAt   |-> Vec(p.x, p.y + 10, p.z - 80) ]]

(***************************************************************************)
(* movePlayer()                                                            *)
(***************************************************************************)
\* mutant: the facing is that of the first pressed key tested, not the last
Candidate_FirstKeyWins(self) ==
    LET k  == self.keys
        p0 == self.player.position
        dz == (IF k["ArrowUp"] THEN 0 - speed ELSE 0)
              + (IF k["ArrowDown"] THEN speed ELSE 0)
        dx == (IF k["ArrowLeft"] THEN 0 - speed ELSE 0)
              + (IF k["ArrowRight"] THEN speed ELSE 0)
        rot == IF k["ArrowUp"] THEN 0
               ELSE IF k["ArrowDown"] THEN 2
               ELSE IF k["ArrowLeft"] THEN 1
               ELSE IF k["ArrowRight"] THEN -1
               ELSE self.player.rotation
    IN  [ newPosition |-> Vec(p0.x + dx, p0.y, p0.z + dz),
          rotation    |-> rot,
          isMoving    |-> \E a \in ArrowKeys : k[a] ]

\* lines 227-247: candidate position, facing and isMoving from the arrow keys
Candidate(self) ==
    LET k  == self.keys
        p0 == self.player.position
        dz == (IF k["ArrowUp"] THEN 0 - speed ELSE 0)
              + (IF k["ArrowDown"] THEN speed ELSE 0)
        dx == (IF k["ArrowLeft"] THEN 0 - speed ELSE 0)
              + (IF k["ArrowRight"] THEN speed ELSE 0)
        rot == IF k["ArrowRight"] THEN -1
               ELSE IF k["ArrowLeft"] THEN 1
               ELSE IF k["ArrowDown"] THEN 2
               ELSE IF k["ArrowUp"] THEN 0
               ELSE self.player.rotation
    IN  [ newPosition |-> Vec(p0.x + dx, p0.y, p0.z + dz),
          rotation    |-> rot,
          isMoving    |-> \E a \in ArrowKeys : k[a] ]

\* lines 249-252: the move is applied unless the candidate collides
\* mutant: a rejected move counts as not moving
Moved_RejectedIsNotMoving(self) ==
    LET c  == Candidate(self)
        s1 == [Step(self, "keys.arrows") EXCEPT
                  !.player.rotation = c.rotation,
                  !.trace.isMoving = c.isMoving]
    IN  IF ~c.isMoving THEN s1
        ELSE IF checkBuildingCollision(c.newPosition)
             THEN [Step(s1, "checkBuildingCollision") EXCEPT
                      !.trace.rejected = TRUE, !.trace.isMoving = FALSE]
             ELSE [Step(Step(s1, "checkBuildingCollision"), "position.copy")
                      EXCEPT !.player.position = c.newPosition]

\* mutant: a refused diagonal move slides along the axis that is free
Moved_Slides(self) ==
    LET c  == Candidate(self)
        p0 == self.player.position
        alongX == Vec(c.newPosition.x, p0.y, p0.z)
        alongZ == Vec(p0.x, p0.y, c.newPosition.z)
        s1 == [Step(self, "keys.arrows") EXCEPT
                  !.player.rotation = c.rotation,
                  !.trace.isMoving = c.isMoving]
    IN  IF ~c.isMoving THEN s1
        ELSE IF checkBuildingCollision(c.newPosition)
             THEN IF ~checkBuildingCollision(alongX)
                  THEN [Step(Step(s1, "checkBuildingCollision"), "position.copy")
                           EXCEPT !.player.position = alongX,
                                  !.trace.rejected = TRUE]
                  ELSE IF ~checkBuildingCollision(alongZ)
                  THEN [Step(Step(s1, "checkBuildingCollision"), "position.copy")
                           EXCEPT !.player.position = alongZ,
                                  !.trace.rejected = TRUE]
                  ELSE [Step(s1, "checkBuildingCollision") EXCEPT
                           !.trace.rejected = TRUE]
             ELSE [Step(Step(s1, "checkBuildingCollision"), "position.copy")
                      EXCEPT !.player.position = c.newPosition]

\* mutant: the collision check is given the position the player stands on
Moved_ChecksCurrent(self) ==
    LET c  == Candidate(self)
        s1 == [Step(self, "keys.arrows") EXCEPT
                  !.player.rotation = c.rotation,
                  !.trace.isMoving = c.isMoving]
    IN  IF ~c.isMoving THEN s1
        ELSE IF checkBuildingCollision(self.player.position)
             THEN [Step(s1, "checkBuildingCollision") EXCEPT
                      !.trace.rejected = TRUE]
             ELSE [Step(Step(s1, "checkBuildingCollision"), "position.copy")
                      EXCEPT !.player.position = c.newPosition]

\* mutant: the collision check runs whether or not a key is pressed
Moved_ChecksWhenStill(self) ==
    LET c  == Candidate(self)
        s1 == [Step(self, "keys.arrows") EXCEPT
                  !.player.rotation = c.rotation,
                  !.trace.isMoving = c.isMoving]
    IN  IF checkBuildingCollision(c.newPosition)
        THEN [Step(s1, "checkBuildingCollision") EXCEPT
                 !.trace.rejected = TRUE]
        ELSE [Step(Step(s1, "checkBuildingCollision"), "position.copy")
                 EXCEPT !.player.position = c.newPosition]

Moved(self) ==
    LET c  == Candidate(self)
        s1 == [Step(self, "keys.arrows") EXCEPT
                  !.player.rotation = c.rotation,
                  !.trace.isMoving = c.isMoving]
    IN  IF ~c.isMoving THEN s1
        ELSE IF checkBuildingCollision(c.newPosition)
             THEN [Step(s1, "checkBuildingCollision") EXCEPT
                      !.trace.rejected = TRUE]
             ELSE [Step(Step(s1, "checkBuildingCollision"), "position.copy")
                      EXCEPT !.player.position = c.newPosition]

\* mutant: the landing selects no animation
Landing_KeepsAnimation(self, isMoving) ==
    [self EXCEPT !.isFlying = FALSE, !.trace.landed = TRUE]

\* mutant: the landing leaves isFlying set
Landing_StaysFlying(self, isMoving) ==
    LET s1 == [self EXCEPT !.trace.landed = TRUE]
    IN  IF isMoving THEN Call(s1, "forceAnimation", "Run")
        ELSE Call(s1, "forceAnimation", "Idle")

\* mutant: the landing cross-fades like any other change
Landing_CrossFades(self, isMoving) ==
    LET s1 == [self EXCEPT !.isFlying = FALSE, !.trace.landed = TRUE]
    IN  IF isMoving THEN Call(s1, "playAnimation", "Run")
        ELSE Call(s1, "playAnimation", "Idle")

\* lines 268-276 and 282-287: the landing, with its forced animation
Landing(self, isMoving) ==
    LET s1 == [self EXCEPT !.isFlying = FALSE, !.trace.landed = TRUE]
    IN  IF isMoving THEN Call(s1, "forceAnimation", "Run")
        ELSE Call(s1, "forceAnimation", "Idle")

\* mutant: standing still selects no animation
Grounded_NoIdle(self, isMoving) ==
    IF self.isFlying THEN Landing(self, isMoving)
    ELSE IF isMoving THEN Call(self, "playAnimation", "Run")
         ELSE self

\* lines 278-296: on the ground
Grounded(self, isMoving) ==
    IF self.isFlying THEN Landing(self, isMoving)
    ELSE IF isMoving THEN Call(self, "playAnimation", "Run")
         ELSE Call(self, "playAnimation", "Idle")

\* mutant: the falling branch stops at the ground and leaves the landing to
\* the ground branch of the next frame
Flight_LandsNextFrame(self) ==
    LET isMoving == self.trace.isMoving
        s0 == [Step(self, "keys.space") EXCEPT !.trace.jump = self.keys[" "]]
    IN  IF s0.keys[" "]
        THEN LET up == [Step(s0, "position.y") EXCEPT
                           !.player.position.y = @ + flyingSpeed]
             IN  [Call(up, "playAnimation", "Jump") EXCEPT !.isFlying = TRUE]
        ELSE IF s0.player.position.y > 0
             THEN LET down == [Step(s0, "position.y") EXCEPT
                                  !.player.position.y = @ - fallSpeed]
                      jump == Call(down, "playAnimation", "Jump")
                  IN  IF jump.player.position.y <= 0
                      THEN [jump EXCEPT !.player.position.y = 0]
                      ELSE jump
             ELSE Grounded(s0, isMoving)

\* mutant: the player falls only while no arrow key is held
Flight_HoversWhileMoving(self) ==
    LET isMoving == self.trace.isMoving
        s0 == [Step(self, "keys.space") EXCEPT !.trace.jump = self.keys[" "]]
    IN  IF s0.keys[" "]
        THEN LET up == [Step(s0, "position.y") EXCEPT
                           !.player.position.y = @ + flyingSpeed]
             IN  [Call(up, "playAnimation", "Jump") EXCEPT !.isFlying = TRUE]
        ELSE IF s0.player.position.y > 0
             THEN IF isMoving THEN Call(s0, "playAnimation", "Jump")
                  ELSE LET down == [Step(s0, "position.y") EXCEPT
                                       !.player.position.y = @ - fallSpeed]
                           jump == Call(down, "playAnimation", "Jump")
                       IN  IF jump.player.position.y <= 0
                           THEN Landing([jump EXCEPT !.player.position.y = 0],
                                        isMoving)
                           ELSE jump
             ELSE Grounded(s0, isMoving)

\* lines 254-297: flying and landing logic
Flight(self) ==
    LET isMoving == self.trace.isMoving
        s0 == [Step(self, "keys.space") EXCEPT !.trace.jump = self.keys[" "]]
    IN  IF s0.keys[" "]
        THEN LET up == [Step(s0, "position.y") EXCEPT
                           !.player.position.y = @ + flyingSpeed]
             IN  [Call(up, "playAnimation", "Jump") EXCEPT !.isFlying = TRUE]
        ELSE IF s0.player.position.y > 0
             THEN LET down == [Step(s0, "position.y") EXCEPT
                                  !.player.position.y = @ - fallSpeed]
                      jump == Call(down, "playAnimation", "Jump")
                  IN  IF jump.player.position.y <= 0
                      THEN Landing([jump EXCEPT !.player.position.y = 0],
                                   isMoving)
                      ELSE jump
             ELSE Grounded(s0, isMoving)

\* mutant: a rejected move ends the frame's update
movePlayer_StopsOnCollision(self) ==
    IF ~self.player.defined \/ ~self.mixer THEN self
    ELSE LET m == Moved(self)
         IN  IF m.trace.rejected THEN m
             ELSE Step(updateCameraPosition(Flight(m)), "camera")

\* mutant: the flying flag follows the jump key before the guard
movePlayer_FlagBeforeGuard(self) ==
    IF ~self.player.defined \/ ~self.mixer
    THEN [self EXCEPT !.isFlying = self.keys[" "]]
    ELSE Step(updateCameraPosition(Flight(Moved(self))), "camera")

\* each stage's result is bound once and handed to the next
movePlayer(self) ==
    IF ~self.player.defined \/ ~self.mixer THEN self
    ELSE CHOOSE done \in
            { Step(updateCameraPosition(flown), "camera") :
                 flown \in { Flight(moved) : moved \in {Moved(self)} } } : TRUE

(***************************************************************************)
(* animate(): one frame callback.                                          *)
(***************************************************************************)
\* mutant: the mixer is advanced after movePlayer
animate_MixerLast(self) ==
    LET s1 == [Step(self, "requestAnimationFrame") EXCEPT
                  !.trace.scheduled = @ + 1, !.trace.ran = TRUE,
                  !.trace.arrows = \E a \in ArrowKeys : self.keys[a]]
        s2 == movePlayer(s1)
        s3 == IF s2.mixer THEN Step(s2, "mixer.update") ELSE s2
    IN  Step(s3, "render")

\* mutant: without a player the callback returns before scheduling the next
animate_StopsWithoutPlayer(self) ==
    IF ~self.player.defined
    THEN [Step(self, "render") EXCEPT
             !.trace.ran = TRUE,
             !.trace.arrows = \E a \in ArrowKeys : self.keys[a]]
    ELSE LET s1 == [Step(self, "requestAnimationFrame") EXCEPT
                       !.trace.scheduled = @ + 1, !.trace.ran = TRUE,
                       !.trace.arrows = \E a \in ArrowKeys : self.keys[a]]
             s2 == IF s1.mixer THEN Step(s1, "mixer.update") ELSE s1
             s3 == movePlayer(s2)
         IN  Step(s3, "render")

animate(self) ==
    LET s1 == [Step(self, "requestAnimationFrame") EXCEPT
                  !.trace.scheduled = @ + 1, !.trace.ran = TRUE,
                  !.trace.arrows = \E a \in ArrowKeys : self.keys[a]]
        s2 == IF s1.mixer THEN Step(s1, "mixer.update") ELSE s1
        s3 == movePlayer(s2)
    IN  Step(s3, "render")

(***************************************************************************)
(* The state of the Game object as one record, and back.                   *)
(***************************************************************************)
This ==
    [ keys |-> keys, player |-> player, mixer |-> mixer,
      animations |-> animations, currentAction |-> currentAction,
      isFlying |-> isFlying, camera |-> camera, trace |-> NoTrace ]

Becomes(self) ==
    /\ keys' = self.keys
    /\ player' = self.player
    /\ mixer' = self.mixer
    /\ animations' = self.animations
    /\ currentAction' = self.currentAction
    /\ isFlying' = self.isFlying
    /\ camera' = self.camera
    /\ trace' = self.trace


Is(self) ==
    /\ keys = self.keys
    /\ player = self.player
    /\ mixer = self.mixer
    /\ animations = self.animations
    /\ currentAction = self.currentAction
    /\ isFlying = self.isFlying
    /\ camera = self.camera
    /\ trace = self.trace

(***************************************************************************)
(* Construction (lines 5-45) and the loader's success callback (94-134).   *)
(***************************************************************************)
\* the object at line 44, just before the constructor's own call of animate()
Constructed ==
    [ keys |-> [k \in KeyNames |-> FALSE], player |-> Undefined,
      mixer |-> FALSE, animations |-> {}, currentAction |-> "undefined",
      isFlying |-> FALSE,
      camera |-> [position |-> Vec(0, 100, 200), lookAt |-> Vec(0, 0, 0)],
      trace |-> NoTrace ]

\* the success callback of loader.load
OnLoad(self) ==
    [self EXCEPT
        !.player = [defined |-> TRUE, position |-> Vec(0, 0, 0), rotation |-> 0],
        !.mixer = TRUE,
        !.animations = GltfClips \cup {"Jump"},
        !.currentAction = "Idle"]

(***************************************************************************)
(* States near the building: the player walks there from the spawn point,  *)
(* frame by frame, with keys held.  A walk is a sequence of legs, each the *)
(* set of keys held and the number of frames they are held for.            *)
(***************************************************************************)
RECURSIVE Hold(_, _)
Hold(self, n) ==
    IF n = 0 THEN self
    ELSE IF n = 1 THEN animate([self EXCEPT !.trace = NoTrace])
    ELSE LET half == Hold(self, n \div 2)
         IN  \* the frames go on as long as each schedules the next
             IF half.trace.scheduled = 0 THEN half
             ELSE Hold(half, n - n \div 2)

RECURSIVE Walk(_, _)
Walk(self, legs) ==
    IF legs = << >> THEN self
    ELSE LET held == [k \in KeyNames |-> k \in legs[1][1]]
         IN  Walk(Hold([self EXCEPT !.keys = held], legs[1][2]), Tail(legs))

\* frames from the spawn point to one step short of the building's corner
ToCorner == (0 - buildingBounds.maxX) \div speed - 1
\* frames from there along the front to the door's edge
ToDoor == (buildingBounds.maxX - buildingBounds.doorMaxX) \div speed + 1
\* frames from the front to the back of the doorway
IntoDoor == (buildingBounds.doorFrontZ - buildingBounds.doorBackZ) \div speed + 1

Walks ==
    { << <<{"ArrowUp", "ArrowLeft"}, ToCorner>> >>,
      << <<{"ArrowUp", "ArrowLeft"}, ToCorner>>, <<{"ArrowLeft"}, ToDoor - 1>> >>,
      << <<{"ArrowUp", "ArrowLeft"}, ToCorner>>, <<{"ArrowLeft"}, ToDoor>>,
         <<{"ArrowUp"}, IntoDoor>> >> }

Arrived == { Walk(OnLoad(animate(Constructed)), w) : w \in Walks }

\* where frames are followed: around the spawn point and around each arrival
Anchors == {Vec(0, 0, 0)} \cup { a.player.position : a \in Arrived }

Abs(n) == IF n < 0 THEN 0 - n ELSE n

InBounds(self) ==
    IF ~self.player.defined THEN TRUE
    ELSE /\ self.player.position.y <= MaxY
         /\ \E a \in Anchors :
               /\ Abs(self.player.position.x - a.x) <= Reach * speed
               /\ Abs(self.player.position.z - a.z) <= Reach * speed

NoProbe == [called |-> FALSE, position |-> Vec(0, 0, 0), collision |-> FALSE]

(***************************************************************************)
(* Initial states.                                                         *)
(***************************************************************************)
\* the constructor has returned: its call of animate() (line 44) has run
Init ==
    /\ Is(animate(Constructed))
    /\ loadState = "pending"
    /\ pendingFrames = animate(Constructed).trace.scheduled
    /\ probe = NoProbe

\* the player has walked from the spawn point to the building
InitArrived ==
    /\ \E a \in Arrived : Is(a)
    /\ loadState = "loaded"
    /\ pendingFrames = 1
    /\ probe = NoProbe

(***************************************************************************)
(* Actions.                                                                *)
(***************************************************************************)
\* mutant: the listener sets the flag of any key, named or not
KeyDown_AnyKey(k) ==
    /\ keys' = [j \in DOMAIN keys \cup {k} |-> IF j = k THEN TRUE ELSE keys[j]]
    /\ UNCHANGED << loadState, player, mixer, animations, currentAction,
                    isFlying, camera, pendingFrames, trace, probe >>

\* keydown listener (lines 161-165)
KeyDown(k) ==
    /\ keys' = IF k \in DOMAIN keys THEN [keys EXCEPT ![k] = TRUE] ELSE keys
    /\ UNCHANGED << loadState, player, mixer, animations, currentAction,
                    isFlying, camera, pendingFrames, trace, probe >>

\* keyup listener (lines 167-171)
KeyUp(k) ==
    /\ keys' = IF k \in DOMAIN keys THEN [keys EXCEPT ![k] = FALSE] ELSE keys
    /\ UNCHANGED << loadState, player, mixer, animations, currentAction,
                    isFlying, camera, pendingFrames, trace, probe >>

\* the loader calls the success callback (lines 94-134)
LoadSuccess ==
    /\ loadState = "pending"
    /\ loadState' = "loaded"
    /\ Becomes([OnLoad(This) EXCEPT !.trace = trace])
    /\ UNCHANGED << pendingFrames, probe >>

\* the load fails: no error callback was passed to loader.load (lines 92-135)
LoadError ==
    /\ loadState = "pending"
    /\ loadState' = "failed"
    /\ UNCHANGED << keys, player, mixer, animations, currentAction, isFlying,
                    camera, pendingFrames, trace, probe >>

\* the host runs a scheduled frame callback: animate() (lines 345-362)
Frame ==
    /\ pendingFrames > 0
    /\ LET self == animate(This)
       IN  /\ InBounds(self)
           /\ Becomes(self)
           /\ pendingFrames' = pendingFrames - 1 + self.trace.scheduled
    /\ UNCHANGED << loadState, probe >>

Next ==
    \/ \E k \in EventKeys : KeyDown(k)
    \/ \E k \in EventKeys : KeyUp(k)
    \/ LoadSuccess
    \/ LoadError
    \/ Frame

\* the game from its construction
Spec == Init /\ [][Next]_vars

\* the game from its construction or from an arrival at the building
SpecBuilding == (Init \/ InitArrived) /\ [][Next]_vars

(***************************************************************************)
(* The game with its frames scheduled fairly.  requestAnimationFrame runs  *)
(* every callback handed to it, so while a frame callback is pending the   *)
(* frames of a fall (jump key released, player airborne) go on running.    *)
(***************************************************************************)
\* a frame that keeps the player near the spawn point
Near(self) ==
    IF ~self.player.defined THEN TRUE
    ELSE /\ Abs(self.player.position.x) <= FairReach * speed
         /\ Abs(self.player.position.z) <= FairReach * speed
         /\ self.player.position.y <= FairMaxY

FrameNear ==
    /\ pendingFrames > 0
    /\ LET self == animate(This)
       IN  /\ Near(self)
           /\ Becomes(self)
           /\ pendingFrames' = pendingFrames - 1 + self.trace.scheduled
    /\ UNCHANGED << loadState, probe >>

\* frames a fall lasts at most, from the highest point of the window
FallFrames == (FairMaxY + flyingSpeed) \div fallSpeed + 1

\* a frame of a falling player with the jump key released; a fall that starts
\* in the window ends within FallFrames frames of it
Fall ==
    /\ pendingFrames > 0
    /\ player.defined /\ mixer
    /\ ~keys[" "]
    /\ player.position.y > 0
    /\ Abs(player.position.x) <= (FairReach + FallFrames) * speed
    /\ Abs(player.position.z) <= (FairReach + FallFrames) * speed
    /\ \E self \in {animate(This)} :
          /\ Becomes(self)
          /\ pendingFrames' = pendingFrames - 1 + self.trace.scheduled
    /\ UNCHANGED << loadState, probe >>

NextFair ==
    \/ \E k \in EventKeys : KeyDown(k)
    \/ \E k \in EventKeys : KeyUp(k)
    \/ LoadSuccess
    \/ LoadError
    \/ FrameNear
    \/ Fall

SpecFair == Init /\ [][NextFair]_vars /\ WF_vars(Fall)

(***************************************************************************)
(* checkBuildingCollision evaluated directly on candidate positions.       *)
(***************************************************************************)
ProbeXs == (buildingBounds.minX - Margin) .. (buildingBounds.maxX + Margin)
ProbeZs == (buildingBounds.minZ - Margin) .. (buildingBounds.maxZ + Margin)
ProbeYs == {0 - fallSpeed, 0, MaxY}

Probe ==
    /\ ~probe.called
    /\ \E x \in ProbeXs, y \in ProbeYs, z \in ProbeZs :
          probe' = [ called |-> TRUE, position |-> Vec(x, y, z),
                     collision |-> checkBuildingCollision(Vec(x, y, z)) ]
    /\ UNCHANGED gameVars

NextProbe == Probe

SpecCollision == Init /\ [][NextProbe]_vars

(***************************************************************************)
(* Properties.                                                             *)
(***************************************************************************)
Loaded == player.defined /\ mixer
AnyArrow == \E a \in ArrowKeys : keys[a]
Count(seq, x) == Cardinality({i \in DOMAIN seq : seq[i] = x})

\* C1: for every candidate position whose x is outside [-50,-40] or whose z
\* is outside [-50,-40], checkBuildingCollision returns false, whatever y is.
C1_OutsideNeverCollides ==
    probe.called =>
        ( ( \/ probe.position.x < -1000 \/ probe.position.x > -800
            \/ probe.position.z < -1000 \/ probe.position.z > -800 )
          => probe.collision = FALSE )

\* a probe just in front of the front face, at a negative height
C1_Witness ==
    /\ probe.called
    /\ probe.position = Vec(-900, 0 - fallSpeed, -799)
    /\ probe.collision = FALSE

\* C2: for every candidate position inside the outer rectangle (bounds
\* inclusive), checkBuildingCollision returns false when the position is
\* inside the doorway (x in [-46,-44], z in [-41,-40], bounds inclusive) and
\* true otherwise.
C2_InsideCollidesExceptDoorway ==
    ( /\ probe.called
      /\ probe.position.x >= -1000 /\ probe.position.x <= -800
      /\ probe.position.z >= -1000 /\ probe.position.z <= -800 )
    => ( probe.collision =
           ~ ( /\ probe.position.x >= -920 /\ probe.position.x <= -880
               /\ probe.position.z >= -820 /\ probe.position.z <= -800 ) )

\* a probe on the doorway's back left corner, which passes
C2_Witness ==
    /\ probe.called
    /\ probe.position.x = -920 /\ probe.position.z = -820
    /\ probe.collision = FALSE

C5_GroundedNoKeysIsIdle ==
    [][ (Loaded /\ player.position.y = 0 /\ ~keys[" "] /\ ~AnyArrow /\ Frame)
        => currentAction' = "Idle" ]_vars

\* a grounded frame without keys that brought the animation from Run to Idle
C5_Witness ==
    /\ Loaded
    /\ ~trace.isMoving /\ ~trace.jump /\ ~trace.landed
    /\ trace.ops = << <<"fadeOut", "Run">>, <<"reset", "Idle">>,
                      <<"fadeIn", "Idle">>, <<"play", "Idle">> >>
    /\ currentAction = "Idle"

\* C6: in the frame in which a falling player reaches the ground, the current
\* animation at the end of the frame is Run if an arrow key is pressed in
\* that frame and Idle if none is, also when the keys move nothing.
C6_LandingSelectsRunOrIdle ==
    [][ ( /\ Loaded /\ ~keys[" "]
          /\ player.position.y > 0 /\ player'.position.y = 0
          /\ Frame )
        => currentAction' = (IF AnyArrow THEN "Run" ELSE "Idle") ]_vars

\* a landing in a frame whose move was rejected by the collision check
C6_Witness ==
    /\ Loaded
    /\ trace.landed /\ trace.rejected
    /\ currentAction = "Run"

\* C7: playAnimation with the name of the current animation changes nothing
\* (same current action, no fade, no reset), and playAnimation(name) twice
\* leaves the state playAnimation(name) once leaves.
C7_PlayAnimationIdempotent ==
    Loaded =>
        /\ playAnimation(This, currentAction) = This
        /\ \A name \in animations \cup {"Dance"} :
              playAnimation(playAnimation(This, name), name)
                = playAnimation(This, name)

\* a frame that selected Jump while Jump was current, and did nothing to it
C7_Witness ==
    /\ Loaded
    /\ currentAction = "Jump"
    /\ trace.calls = << <<"playAnimation", "Jump">> >>
    /\ trace.ops = << >>

Lands == player.position.y > 0 /\ player'.position.y = 0
Fades(ops) == \E i \in DOMAIN ops : ops[i][1] \in {"fadeIn", "fadeOut"}

Index(seq, x) == CHOOSE i \in DOMAIN seq : seq[i] = x

MoveSteps == { << >>, <<"checkBuildingCollision">>,
               <<"checkBuildingCollision", "position.copy">> }
FlightSteps == { <<"playAnimation">>, <<"position.y", "playAnimation">>,
                 <<"position.y", "playAnimation", "forceAnimation">> }
FrameOrders ==
    { <<"requestAnimationFrame", "render">> } \cup
    { <<"requestAnimationFrame", "mixer.update", "keys.arrows">> \o m
        \o <<"keys.space">> \o f \o <<"camera", "render">> :
        m \in MoveSteps, f \in FlightSteps }

C10_AbsentUntilLoaded ==
    [][ /\ (~Loaded /\ Frame)
           => /\ UNCHANGED << player, isFlying, currentAction, camera, keys,
                              mixer, animations >>
              /\ trace'.steps = <<"requestAnimationFrame", "render">>
        /\ \A k \in KeyNames :
             /\ (KeyDown(k) /\ ~Loaded) => (keys'[k] /\ player' = Undefined)
             /\ (KeyUp(k) /\ ~Loaded) => (~keys'[k] /\ player' = Undefined)
        /\ (Loaded /\ Count(trace.steps, "mixer.update") = 0 /\ Frame)
           => player'.position =
                Vec( (IF keys["ArrowRight"] THEN speed ELSE 0)
                       - (IF keys["ArrowLeft"] THEN speed ELSE 0),
                     IF keys[" "] THEN flyingSpeed ELSE 0,
                     (IF keys["ArrowDown"] THEN speed ELSE 0)
                       - (IF keys["ArrowUp"] THEN speed ELSE 0) ) ]_vars

\* keys pressed before the load had their effect in the first frame after it
C10_Witness ==
    /\ Loaded
    /\ keys["ArrowUp"] /\ keys["ArrowLeft"] /\ keys[" "]
    /\ ~keys["ArrowDown"] /\ ~keys["ArrowRight"]
    /\ player.position = Vec(0 - speed, flyingSpeed, 0 - speed)
    /\ Count(trace.steps, "mixer.update") = 1

\* C11: if the load fails, the frame loop goes on: a frame callback is always
\* pending and can run, and the last frame scheduled exactly one next frame
\* and ran to its render step, with no player and no mixer ever set.
C11_LoadFailureNotFatal ==
    loadState = "failed"
        => /\ pendingFrames = 1
           /\ ENABLED Frame
           /\ player = Undefined /\ ~mixer
           /\ trace.ran
           /\ trace.steps = <<"requestAnimationFrame", "render">>
           /\ trace.scheduled = 1

\* the load has failed, keys are held, and the last frame ran to its render
C11_Witness ==
    /\ loadState = "failed"
    /\ keys["ArrowUp"] /\ keys[" "]
    /\ trace.ran /\ trace.arrows
    /\ trace.steps = <<"requestAnimationFrame", "render">>
    /\ pendingFrames = 1

\* C12 as claimed: in every frame in which an arrow key is pressed
\* checkBuildingCollision is called exactly once, and in a frame in which
\* none is pressed it is not called.
C12_ClaimedOncePerFrame ==
    trace.ran => Count(trace.steps, "checkBuildingCollision")
                   = (IF trace.arrows THEN 1 ELSE 0)

\* C12 amended: in every frame after load checkBuildingCollision is called
\* exactly once if an arrow key is pressed and not at all if none is; in a
\* frame before load it is never called; and a frame whose call reports a
\* collision changes neither the player's x and z nor the key map.
C12_OncePerMovementAttempt ==
    [][ /\ (Loaded /\ Frame)
           => /\ Count(trace'.steps, "checkBuildingCollision")
                   = (IF AnyArrow THEN 1 ELSE 0)
              /\ keys' = keys
              /\ (trace'.rejected
                    => /\ player'.position.x = player.position.x
                       /\ player'.position.z = player.position.z)
        /\ (~Loaded /\ Frame)
           => Count(trace'.steps, "checkBuildingCollision") = 0 ]_vars

\* a frame with opposite keys held: one check, of the player's own position
C12_Witness ==
    /\ Loaded
    /\ keys["ArrowUp"] /\ keys["ArrowDown"]
    /\ ~keys["ArrowLeft"] /\ ~keys["ArrowRight"]
    /\ trace.isMoving
    /\ Count(trace.steps, "checkBuildingCollision") = 1

\* C13: a step that changes the key map changes the flag of exactly one of
\* the five named keys and nothing else of the game (position, facing,
\* isFlying, current animation, camera); the key map always holds exactly
\* the five named keys.
C13_KeyEventsOnlySetFlags ==
    /\ [](DOMAIN keys = {"ArrowUp", "ArrowDown", "ArrowLeft", "ArrowRight", " "})
    /\ [][ keys' # keys
           => /\ DOMAIN keys' = DOMAIN keys
              /\ Cardinality({k \in DOMAIN keys : keys'[k] # keys[k]}) = 1
              /\ UNCHANGED << player, isFlying, currentAction, camera, mixer,
                              animations, loadState, pendingFrames, trace >>
       ]_vars

\* a key pressed after the load, before any frame: the player has not moved
C13_Witness ==
    /\ Loaded
    /\ keys["ArrowLeft"] /\ keys[" "]
    /\ Count(trace.steps, "mixer.update") = 0
    /\ player.position = Vec(0, 0, 0) /\ player.rotation = 0
    /\ ~isFlying /\ currentAction = "Idle"

AskedX == (IF keys["ArrowRight"] THEN speed ELSE 0)
          - (IF keys["ArrowLeft"] THEN speed ELSE 0)
AskedZ == (IF keys["ArrowDown"] THEN speed ELSE 0)
          - (IF keys["ArrowUp"] THEN speed ELSE 0)

\* the place asked for is in the building and not in its doorway
AskedIsBlocked ==
    LET x == player.position.x + AskedX
        z == player.position.z + AskedZ
    IN  /\ x >= -1000 /\ x <= -800 /\ z >= -1000 /\ z <= -800
        /\ ~(x >= -920 /\ x <= -880 /\ z >= -820 /\ z <= -800)

\* the facing the pressed arrow keys give, the last of Up, Down, Left, Right
\* that is pressed winning
AskedFacing ==
    IF keys["ArrowRight"] THEN -1
    ELSE IF keys["ArrowLeft"] THEN 1
    ELSE IF keys["ArrowDown"] THEN 2
    ELSE IF keys["ArrowUp"] THEN 0
    ELSE player.rotation

C19_FacingPriority ==
    [][ (Loaded /\ Frame)
        => /\ player'.rotation =
                 (IF keys["ArrowRight"] THEN -1
                  ELSE IF keys["ArrowLeft"] THEN 1
                  ELSE IF keys["ArrowDown"] THEN 2
                  ELSE IF keys["ArrowUp"] THEN 0
                  ELSE player.rotation)
           /\ (keys["ArrowUp"] /\ keys["ArrowDown"])
                 => player'.position.z = player.position.z
           /\ (keys["ArrowLeft"] /\ keys["ArrowRight"])
                 => player'.position.x = player.position.x
           /\ ~trace'.rejected
                 => /\ player'.position.x = player.position.x + AskedX
                    /\ player'.position.z = player.position.z + AskedZ
      ]_vars

\* all four arrow keys are held: the player faces right and has not moved
C19_Witness ==
    /\ Loaded
    /\ \A a \in ArrowKeys : keys[a]
    /\ trace.isMoving /\ ~trace.rejected
    /\ Count(trace.steps, "position.copy") = 1
    /\ player.rotation = -1
    /\ player.position = Vec(0, 0, 0)

=============================================================================
